---- MODULE Spec2Model ----
(***************************************************************************)
(* Chunked upload of snap-gallery-server: POST /upload/chunk stores one    *)
(* chunk file per (uploadId, chunkIndex) in tmp_chunks, POST               *)
(* /upload/complete appends the chunk files 0..totalChunks-1 to a fresh    *)
(* file under uploads/<folder>, deletes them, and inserts one document in  *)
(* the media collection.  GET /stream/:folder/:filename serves a merged   *)
(* file, whole or the window a Range header names.  The repository holds   *)
(* two revisions of the server (src/index.js and src/unnamed/part_000);    *)
(* rev selects one.                                                        *)
(***************************************************************************)
EXTENDS Integers, Sequences, FiniteSets, TLC

\* ---------------------------------------------------------------- bounds
MaxRequests == 3         \* requests (chunk and complete) in one behaviour
MaxFaults == 1           \* injected disk-write / insertOne failures
MaxSize == 3             \* bytes in an artifact that an earlier run merged

\* ------------------------------------------------------------ JS values
\* an absent body field (undefined); distinct from every string a client sends
UNDEF == "<undefined>"

\* JS truthiness of a body field: undefined and "" are falsy
Falsy(v) == v = UNDEF \/ v = ""

\* `${v}` : template-literal rendering of a body field
Str(v) == IF v = UNDEF THEN "undefined" ELSE v

\* `${i}` for a non-negative integer (the loop counter of the merge, the
\* numbers of Content-Range)
RECURSIVE NumStr(_)
NumStr(i) ==
  IF i >= 10 THEN NumStr(i \div 10) \o NumStr(i % 10)
  ELSE CASE i = 0 -> "0" [] i = 1 -> "1" [] i = 2 -> "2" [] i = 3 -> "3"
         [] i = 4 -> "4" [] i = 5 -> "5" [] i = 6 -> "6" [] i = 7 -> "7"
         [] i = 8 -> "8" [] OTHER -> "9"

\* Number(totalChunks); NaN is modelled as -1 (i < NaN and i < -1 are both
\* false for every i >= 0, and the value is used only in that comparison)
Number(s) ==
  CASE s = "" -> 0 [] s = "0" -> 0 [] s = "1" -> 1 [] s = "2" -> 2 [] s = "3" -> 3
    [] s = "4" -> 4 [] OTHER -> -1

\* (folder || 'others').replace(/[^a-zA-Z0-9-_]/g, '') || 'others'
Sanitize(folder) ==
  CASE Falsy(folder) -> "others"
    [] folder = "v!" -> "v"
    [] folder = "!!" -> "others"
    [] OTHER -> folder

\* ------------------------------------------------------------- requests
Revisions == {"index.js", "part_000"}

p1 == <<1>>
p2 == <<2, 3>>
p3 == <<4>>

\* multipart bodies of POST /upload/chunk: hasFile is whether a part named
\* 'chunk' is attached, bytes its content
ChunkBody(u, c, h, b) == [uploadId |-> u, chunkIndex |-> c, hasFile |-> h, bytes |-> b]

ChunkBodies ==
  { ChunkBody("a", "0", TRUE, p1), ChunkBody("a", "0", TRUE, p2),
    ChunkBody("a", "1", TRUE, p2), ChunkBody("b", "0", TRUE, p3),
    ChunkBody(UNDEF, "0", TRUE, p1), ChunkBody("", "0", TRUE, p1),
    ChunkBody("a", UNDEF, TRUE, p1), ChunkBody("a", "-1", TRUE, p1),
    ChunkBody("a", "0", FALSE, <<>>) }

\* the bodies with a payload that both revisions store: the chunks of "a"
\* and "b", an index that is not a non-negative integer, and a token that
\* ends in '-'
StoredChunkBodies ==
  { ChunkBody("a", "0", TRUE, p1), ChunkBody("a", "1", TRUE, p2),
    ChunkBody("b", "0", TRUE, p3), ChunkBody("a", "-1", TRUE, p1),
    ChunkBody("a-", "1", TRUE, p2) }

\* bodies of POST /upload/complete
CompleteBody(u, f, t, d) == [uploadId |-> u, fileName |-> f, totalChunks |-> t, folder |-> d]

CompleteBodies ==
  { CompleteBody("a", "f.mp4", "1", UNDEF), CompleteBody("a", "f.mp4", "2", UNDEF),
    CompleteBody("b", "f.mp4", "1", "v!"),
    CompleteBody(UNDEF, "f.mp4", "1", "v!"), CompleteBody("a", "", "1", "v!"),
    CompleteBody("a", "f.mp4", UNDEF, "v!") }

\* the bodies that pass validation, totalChunks '0' among them
ValidatedCompleteBodies ==
  { CompleteBody("a", "f.mp4", "1", UNDEF), CompleteBody("a", "f.mp4", "2", UNDEF),
    CompleteBody("b", "f.mp4", "1", "v!"), CompleteBody("a", "f.mp4", "0", UNDEF) }

\* ---------------------------------------------------------------- state
VARIABLES
  rev,             \* which revision of the server is running
  tmpChunkDir,     \* tmp_chunks: file name -> bytes, for the files that exist
  folders,         \* sub-folders of uploads/ that exist
  uploads,         \* output files: call number -> bytes, for the files that exist
  mediaCollection, \* documents inserted in the media collection
  chunkReq,        \* <<b>>: the /upload/chunk request multer is writing; else <<>>
  lastChunk,       \* <<r>>: the latest /upload/chunk request and its answer; <<>>
                   \* before the first one and while chunkReq is being written
  chunkLog,        \* per chunk file name, the payloads submitted for it, in order
  merges,          \* the /upload/complete calls, in order of arrival
  appends,         \* <<chunk file, submission number, call>> for every completed append
  chunkCalls,      \* number of /upload/chunk requests so far
  faults,          \* number of failures injected so far
  running,         \* the node process is alive
  lastStream,      \* <<r>>: the latest GET /stream request and its answer; else <<>>
  streamCalls,     \* number of GET /stream requests so far
  owners           \* per chunk file name, the (uploadId, chunkIndex) pairs stored in it

vars == <<rev, tmpChunkDir, folders, uploads, mediaCollection, chunkReq,
          lastChunk, chunkLog, merges, appends, chunkCalls, faults,
          running, lastStream, streamCalls, owners>>

\* ---------------------------------------------------------- file system
existsSync(dir, p) == p \in DOMAIN dir

\* create or replace file p with bytes b
WriteFile(dir, p, b) == [f \in DOMAIN dir \cup {p} |-> IF f = p THEN b ELSE dir[f]]

\* mutation of Unlink: every chunk file goes
UnlinkAll(dir, p) == [f \in {} |-> <<>>]

\* fs.unlinkSync(p), p existing
Unlink(dir, p) == [f \in DOMAIN dir \ {p} |-> dir[f]]

EmptyDir == [f \in {} |-> <<>>]

\* mutation of OpenForWrite: flags 'a', an existing file keeps its bytes
OpenForAppend(dir, p) == IF p \in DOMAIN dir THEN dir ELSE WriteFile(dir, p, <<>>)

\* fs.createWriteStream(p): the open (flags 'w') creates p or truncates it
OpenForWrite(dir, p) == WriteFile(dir, p, <<>>)

\* mutation of StreamWrite: the buffer lands in front of what was written
StreamWriteInFront(cur, buf) == buf \o cur

\* a write of buf through a write stream whose file holds cur
StreamWrite(cur, buf) == cur \o buf

\* mutation of chunkPath: the token is left out of the name
chunkPathNoToken(uploadId, i) == "a-" \o NumStr(i)

\* path.join(tmpChunkDir, `${uploadId}-${i}`)
chunkPath(uploadId, i) == Str(uploadId) \o "-" \o NumStr(i)

\* chunkStorage.filename: `${uploadId}-${chunkIndex}`
filename(b) == Str(b.uploadId) \o "-" \o Str(b.chunkIndex)

\* The server has just started: uploads/ has no sub-folder and no request has
\* arrived.  tmp_chunks is created only when absent, so it holds the chunk
\* files S that requests to an earlier run of the server stored (each
\* submitted once and written through, as chunkLog records).
InitWith(S) ==
  /\ rev \in Revisions
  /\ tmpChunkDir = [f \in { filename(b) : b \in S } |->
                      (CHOOSE b \in S : filename(b) = f).bytes]
  /\ folders = {}
  /\ uploads = EmptyDir
  /\ mediaCollection = {}
  /\ chunkReq = <<>>
  /\ lastChunk = <<>>
  /\ chunkLog = [f \in { filename(b) : b \in S } |->
                   <<(CHOOSE b \in S : filename(b) = f).bytes>>]
  /\ owners = [f \in { filename(b) : b \in S } |->
                 { <<b.uploadId, b.chunkIndex>> : b \in { c \in S : filename(c) = f } }]
  /\ merges = <<>>
  /\ appends = {}
  /\ chunkCalls = 0
  /\ faults = 0
  /\ running = TRUE
  /\ lastStream = <<>>
  /\ streamCalls = 0

\* chunk files an earlier run left behind
LeftBehind == { ChunkBody("a", "0", TRUE, p1), ChunkBody("b", "0", TRUE, p3) }

\* a first start, over an empty tmp_chunks
FirstStart == InitWith({})

\* a first start or a restart
Init == FirstStart \/ InitWith(LeftBehind)

\* ------------------------------------------------------ POST /upload/chunk
\* chunkStorage.filename hands multer an Error instead of a name
filenameError(b) ==
  /\ rev = "index.js"
  /\ (Falsy(b.uploadId) \/ b.chunkIndex = UNDEF)

\* submissions logged so far for chunk file f
Submissions(f) == IF f \in DOMAIN chunkLog THEN chunkLog[f] ELSE <<>>

\* the (uploadId, chunkIndex) pairs stored so far under chunk file f
Owners(f) == IF f \in DOMAIN owners THEN owners[f] ELSE {}

\* A request that stores nothing: without a 'chunk' part multer never calls
\* chunkStorage and the handler answers 400; when chunkStorage.filename
\* fails, multer passes the Error on and express answers 500.
ChunkRejected(b) ==
  /\ running
  /\ chunkCalls + Len(merges) + streamCalls < MaxRequests
  /\ chunkReq = <<>>
  /\ ~b.hasFile \/ filenameError(b)
  /\ chunkCalls' = chunkCalls + 1
  /\ lastChunk' = <<[body |-> b, status |-> IF ~b.hasFile THEN 400 ELSE 500, stored |-> FALSE]>>
  /\ UNCHANGED <<running, lastStream, streamCalls, owners>>
  /\ UNCHANGED <<rev, tmpChunkDir, folders, uploads, mediaCollection, chunkReq,
                 chunkLog, merges, appends, faults>>

\* multer reaches the 'chunk' part: chunkStorage names the file and the
\* disk storage opens it for writing, which creates or truncates it
ChunkStart(b) ==
  /\ running
  /\ chunkCalls + Len(merges) + streamCalls < MaxRequests
  /\ chunkReq = <<>>
  /\ b.hasFile /\ ~filenameError(b)
  /\ chunkCalls' = chunkCalls + 1
  /\ chunkReq' = <<b>>
  /\ lastChunk' = <<>>
  /\ tmpChunkDir' = OpenForWrite(tmpChunkDir, filename(b))
  /\ chunkLog' = WriteFile(chunkLog, filename(b), Append(Submissions(filename(b)), b.bytes))
  /\ owners' = WriteFile(owners, filename(b),
                         Owners(filename(b)) \cup {<<b.uploadId, b.chunkIndex>>})
  /\ UNCHANGED <<running, lastStream, streamCalls>>
  /\ UNCHANGED <<rev, folders, uploads, mediaCollection, merges, appends, faults>>

\* the part has been written through (into the file the stream opened: a
\* file unlinked meanwhile stays unlinked); the handler answers success
ChunkFinish ==
  /\ running
  /\ chunkReq # <<>>
  /\ tmpChunkDir' = IF existsSync(tmpChunkDir, filename(chunkReq[1]))
                    THEN WriteFile(tmpChunkDir, filename(chunkReq[1]),
                                   StreamWrite(tmpChunkDir[filename(chunkReq[1])], chunkReq[1].bytes))
                    ELSE tmpChunkDir
  /\ lastChunk' = <<[body |-> chunkReq[1], status |-> 200, stored |-> TRUE]>>
  /\ chunkReq' = <<>>
  /\ UNCHANGED <<running, lastStream, streamCalls, owners>>
  /\ UNCHANGED <<rev, folders, uploads, mediaCollection, chunkLog, merges, appends,
                 chunkCalls, faults>>

\* ---------------------------------------------------- POST /upload/complete
\* A call is a record: body, pc (where the handler is suspended: "write" in
\* the await of writeStream.write, "end" waiting for the callback of
\* writeStream.end, "insert" in the await of insertOne, "done" returned,
\* "rejected" the end callback's promise rejected), i (loop counter),
\* chunkBuffer, unit (submission number of the chunk file read), stream
\* (fs.createWriteStream was called), open (the write stream holds the
\* output file open), status (0: no answer yet), missing (the
\* index named in the 400 answer, else -1), and three history fields about
\* the moment the call arrived: subs (number of submissions so far for the
\* chunk files 0..totalChunks-1), idle (none of these files was being
\* written) and inflight (the calls not yet finished).
folderName(b) == Sanitize(b.folder)

\* mutation of MissingParameters: totalChunks is not looked at
MissingParametersNoTotal(b) == Falsy(b.uploadId) \/ Falsy(b.fileName)

MissingParameters(b) == Falsy(b.uploadId) \/ Falsy(b.fileName) \/ Falsy(b.totalChunks)

\* mutation of Iterate: the loop goes one chunk too far
IterateOneMore(r, i, dir) ==
  IF ~(i <= Number(r.body.totalChunks))
  THEN [r EXCEPT !.pc = "end", !.i = i, !.chunkBuffer = <<>>]
  ELSE IF ~existsSync(dir, chunkPath(r.body.uploadId, i))
  THEN [r EXCEPT !.pc = "done", !.i = i, !.chunkBuffer = <<>>, !.status = 400, !.missing = i]
  ELSE [r EXCEPT !.pc = "write", !.i = i,
                 !.chunkBuffer = dir[chunkPath(r.body.uploadId, i)],
                 !.unit = Len(Submissions(chunkPath(r.body.uploadId, i)))]

\* mutation of Iterate: the loop stops one chunk early
IterateSkipsLast(r, i, dir) ==
  IF ~(i < Number(r.body.totalChunks) - 1)
  THEN [r EXCEPT !.pc = "end", !.i = i, !.chunkBuffer = <<>>]
  ELSE IF ~existsSync(dir, chunkPath(r.body.uploadId, i))
  THEN [r EXCEPT !.pc = "done", !.i = i, !.chunkBuffer = <<>>, !.status = 400, !.missing = i]
  ELSE [r EXCEPT !.pc = "write", !.i = i,
                 !.chunkBuffer = dir[chunkPath(r.body.uploadId, i)],
                 !.unit = Len(Submissions(chunkPath(r.body.uploadId, i)))]

\* One pass through the head of the for loop at counter i over the chunk
\* directory dir: leave the loop, answer 400 for a missing chunk file, or
\* read the file and hand it to writeStream.write.
Iterate(r, i, dir) ==
  IF ~(i < Number(r.body.totalChunks))
  THEN [r EXCEPT !.pc = "end", !.i = i, !.chunkBuffer = <<>>]
  ELSE IF ~existsSync(dir, chunkPath(r.body.uploadId, i))
  THEN [r EXCEPT !.pc = "done", !.i = i, !.chunkBuffer = <<>>, !.status = 400, !.missing = i]
  ELSE [r EXCEPT !.pc = "write", !.i = i,
                 !.chunkBuffer = dir[chunkPath(r.body.uploadId, i)],
                 !.unit = Len(Submissions(chunkPath(r.body.uploadId, i)))]

\* the file under which /upload/chunk stores chunk i of token t
UnitOf(t, i) == filename([uploadId |-> t, chunkIndex |-> NumStr(i)])

\* the stored chunks 0..totalChunks-1 of the token of body b
Units(b) == { UnitOf(b.uploadId, i) : i \in 0..(Number(b.totalChunks) - 1) }

\* number of submissions logged for the chunk files 0..n-1 of token t
RECURSIVE SubmissionCount(_, _)
SubmissionCount(t, n) ==
  IF n <= 0 THEN 0 ELSE SubmissionCount(t, n - 1) + Len(Submissions(UnitOf(t, n - 1)))

Finished(r) == r.pc \in {"done", "rejected"}

NewCall(b) ==
  [body |-> b, pc |-> "done", i |-> 0, chunkBuffer |-> <<>>, unit |-> 0, stream |-> FALSE,
   open |-> FALSE, status |-> 0, missing |-> -1,
   subs |-> SubmissionCount(b.uploadId, Number(b.totalChunks)),
   idle |-> chunkReq = <<>> \/ filename(chunkReq[1]) \notin Units(b),
   inflight |-> { j \in 1..Len(merges) : ~Finished(merges[j]) }]

\* The handler up to its first await or return.  finalPath is fresh for every
\* call (Date.now() and a random number), so the output file is named by the
\* number of the call; fs.createWriteStream(finalPath) creates it, empty.
CompleteStart(b) ==
  /\ running
  /\ chunkCalls + Len(merges) + streamCalls < MaxRequests
  /\ IF MissingParameters(b)
     THEN /\ merges' = Append(merges, [NewCall(b) EXCEPT !.status = 400])
          /\ UNCHANGED <<folders, uploads>>
     ELSE /\ folders' = folders \cup {folderName(b)}
          /\ uploads' = OpenForWrite(uploads, Len(merges) + 1)
          /\ merges' = Append(merges, Iterate([NewCall(b) EXCEPT !.stream = TRUE, !.open = TRUE], 0, tmpChunkDir))
  /\ UNCHANGED <<running, lastStream, streamCalls, owners>>
  /\ UNCHANGED <<rev, tmpChunkDir, mediaCollection, chunkReq, lastChunk,
                 chunkLog, appends, chunkCalls, faults>>

\* the write callback reports success: the handler resumes after the await,
\* unlinks the chunk file (unlinkSync throws when it is gone: catch, 500) and
\* goes round the loop
WriteCallback(k) ==
  /\ running
  /\ k \in 1..Len(merges)
  /\ merges[k].pc = "write"
  /\ LET r == merges[k]
         path == chunkPath(r.body.uploadId, r.i)
     IN /\ uploads' = WriteFile(uploads, k, StreamWrite(uploads[k], r.chunkBuffer))
        /\ appends' = appends \cup {<<path, r.unit, k>>}
        /\ IF existsSync(tmpChunkDir, path)
           THEN /\ tmpChunkDir' = Unlink(tmpChunkDir, path)
                /\ merges' = [merges EXCEPT ![k] = Iterate(r, r.i + 1, tmpChunkDir')]
           ELSE /\ tmpChunkDir' = tmpChunkDir
                /\ merges' = [merges EXCEPT ![k] = [r EXCEPT !.pc = "done", !.status = 500]]
  /\ UNCHANGED <<running, lastStream, streamCalls, owners>>
  /\ UNCHANGED <<rev, folders, mediaCollection, chunkReq, lastChunk, chunkLog,
                 chunkCalls, faults>>

\* the write callback reports an error (disk failure): reject, catch, 500;
\* a stream that fails destroys itself, which closes its file
WriteFails(k) ==
  /\ running
  /\ k \in 1..Len(merges)
  /\ merges[k].pc = "write"
  /\ faults < MaxFaults
  /\ faults' = faults + 1
  /\ merges' = [merges EXCEPT ![k] = [@ EXCEPT !.pc = "done", !.status = 500, !.open = FALSE]]
  /\ UNCHANGED <<running, lastStream, streamCalls, owners>>
  /\ UNCHANGED <<rev, tmpChunkDir, folders, uploads, mediaCollection, chunkReq,
                 lastChunk, chunkLog, appends, chunkCalls>>

\* the callback of writeStream.end runs (everything is flushed and the stream
\* closes its file): it builds mediaDoc and awaits insertOne
EndCallback(k) ==
  /\ running
  /\ k \in 1..Len(merges)
  /\ merges[k].pc = "end"
  /\ merges' = [merges EXCEPT ![k] = [@ EXCEPT !.pc = "insert", !.open = FALSE]]
  /\ UNCHANGED <<running, lastStream, streamCalls, owners>>
  /\ UNCHANGED <<rev, tmpChunkDir, folders, uploads, mediaCollection, chunkReq,
                 lastChunk, chunkLog, appends, chunkCalls, faults>>

\* url: `/uploads/${folderName}/${finalFileName}` (the file is named by its call)
mediaDoc(k) ==
  [file |-> k, folder |-> folderName(merges[k].body), title |-> merges[k].body.fileName]

\* insertOne resolves: res.json({ success: true, ... })
InsertOne(k) ==
  /\ running
  /\ k \in 1..Len(merges)
  /\ merges[k].pc = "insert"
  /\ mediaCollection' = mediaCollection \cup {mediaDoc(k)}
  /\ merges' = [merges EXCEPT ![k] = [@ EXCEPT !.pc = "done", !.status = 200]]
  /\ UNCHANGED <<running, lastStream, streamCalls, owners>>
  /\ UNCHANGED <<rev, tmpChunkDir, folders, uploads, chunkReq, lastChunk, chunkLog,
                 appends, chunkCalls, faults>>

\* insertOne rejects: the rejection is inside the async callback handed to
\* writeStream.end, outside the handler's try/catch, so nothing answers
InsertFails(k) ==
  /\ running
  /\ k \in 1..Len(merges)
  /\ merges[k].pc = "insert"
  /\ faults < MaxFaults
  /\ faults' = faults + 1
  /\ merges' = [merges EXCEPT ![k] = [@ EXCEPT !.pc = "rejected"]]
  /\ UNCHANGED <<running, lastStream, streamCalls, owners>>
  /\ UNCHANGED <<rev, tmpChunkDir, folders, uploads, mediaCollection, chunkReq,
                 lastChunk, chunkLog, appends, chunkCalls>>

\* ------------------------------------------- GET /stream/:folder/:filename
\* A Range header is the sequence of its characters; an absent header and an
\* empty one are both falsy and both written <<>>.
NoRange == <<>>

Range(chars) == <<"b", "y", "t", "e", "s", "=">> \o chars

\* the result of parseInt when no number can be read; every number parseInt
\* reads from a piece of a string split at '-' is >= 0
NaN == -1000000

\* first position >= i at which pat occurs in s, 0 when there is none
RECURSIVE IndexOf(_, _, _)
IndexOf(s, pat, i) ==
  IF i + Len(pat) - 1 > Len(s) THEN 0
  ELSE IF SubSeq(s, i, i + Len(pat) - 1) = pat THEN i
  ELSE IndexOf(s, pat, i + 1)

\* s.replace(/pat/, ''): the first occurrence is dropped
replace(s, pat) ==
  LET i == IndexOf(s, pat, 1)
  IN IF i = 0 THEN s ELSE SubSeq(s, 1, i - 1) \o SubSeq(s, i + Len(pat), Len(s))

\* s.split(sep) for the one-character separator sep
RECURSIVE split(_, _)
split(s, sep) ==
  LET i == IndexOf(s, <<sep>>, 1)
  IN IF i = 0 THEN <<s>>
     ELSE <<SubSeq(s, 1, i - 1)>> \o split(SubSeq(s, i + 1, Len(s)), sep)

DigitValue(c) ==
  CASE c = "0" -> 0 [] c = "1" -> 1 [] c = "2" -> 2 [] c = "3" -> 3 [] c = "4" -> 4
    [] c = "5" -> 5 [] c = "6" -> 6 [] c = "7" -> 7 [] c = "8" -> 8 [] c = "9" -> 9
    [] OTHER -> -1

\* value of the longest prefix of digits of s, continuing from acc
RECURSIVE DigitPrefix(_, _)
DigitPrefix(s, acc) ==
  IF s = <<>> \/ DigitValue(s[1]) < 0 THEN acc
  ELSE DigitPrefix(Tail(s), 10 * acc + DigitValue(s[1]))

RECURSIVE TrimStart(_)
TrimStart(s) == IF s # <<>> /\ s[1] = " " THEN TrimStart(Tail(s)) ELSE s

\* parseInt(s, 10): leading blanks, an optional sign, then digits; NaN when
\* no digit follows
parseInt(s) ==
  LET t == TrimStart(s)
      signed == t # <<>> /\ t[1] \in {"+", "-"}
      u == IF signed THEN Tail(t) ELSE t
  IN IF u = <<>> \/ DigitValue(u[1]) < 0 THEN NaN
     ELSE IF signed /\ t[1] = "-" THEN 0 - DigitPrefix(u, 0)
     ELSE DigitPrefix(u, 0)

\* finalFileName of call k: Date.now() and a random number make it fresh for
\* every call, so it is rendered from the number of the call
finalFileName(k) == NumStr(k) \o ".mp4"

\* the folder under uploads/ that holds the output of call k; an artifact
\* left by an earlier run lies in 'others'
folderOf(k) == IF k <= Len(merges) THEN folderName(merges[k].body) ELSE "others"

\* st_size of a directory
DirSize == 4096

\* fs.stat(path.join(baseUploadDir, folder, filename)): '..' as filename
\* resolves to baseUploadDir itself, a directory
stat(folder, name) ==
  IF name = ".."
  THEN [kind |-> "dir", size |-> DirSize, bytes |-> <<>>]
  ELSE IF \E k \in DOMAIN uploads : folderOf(k) = folder /\ finalFileName(k) = name
  THEN LET k == CHOOSE j \in DOMAIN uploads :
                  folderOf(j) = folder /\ finalFileName(j) = name
       IN [kind |-> "file", size |-> Len(uploads[k]), bytes |-> uploads[k]]
  ELSE [kind |-> "ENOENT", size |-> 0, bytes |-> <<>>]

\* fs.createReadStream(videoPath, { start, end }) throws unless start and end
\* are integers >= 0 with start <= end
ReadStreamThrows(start, end) == start < 0 \/ end < 0 \/ start > end

\* mutation of Window: the read stream ignores end
WindowToEnd(bytes, start, end) == SubSeq(bytes, start + 1, Len(bytes))

\* what a read stream over { start, end } delivers: the bytes from start up
\* to end or the end of the file, whichever comes first
Window(bytes, start, end) ==
  SubSeq(bytes, start + 1, IF end + 1 < Len(bytes) THEN end + 1 ELSE Len(bytes))

StreamRequest(f, n, r) == [folder |-> f, filename |-> n, range |-> r]

StreamRequests ==
  { StreamRequest("others", n, r) :
      n \in {finalFileName(1), "none.mp4", ".."},
      r \in {NoRange, Range(<<"0", "-", "1">>), Range(<<"1", "-">>), Range(<<"0", "-", "0">>),
             Range(<<"9", "-">>), Range(<<"a", "-", "1">>), Range(<<"-", "1">>),
             Range(<<"2", "-", "0">>), Range(<<"0", "-", "9">>)} }

Answer(q, status, contentRange, acceptRanges, contentLength, body) ==
  [req |-> q, status |-> status, contentRange |-> contentRange,
   acceptRanges |-> acceptRanges, contentLength |-> contentLength, body |-> body]

\* the exception escapes the callback of fs.stat (or is the 'error' event of
\* a read stream nobody listens to): nothing is answered, the process ends
Uncaught(q) == Answer(q, 0, "", "", 0, <<>>)

\* The callback of fs.stat.  Only part_000 tests start >= fileSize.  Reading
\* a directory fails with EISDIR, an 'error' event without a listener.
serve(q) ==
  LET stats == stat(q.folder, q.filename)
      fileSize == stats.size
      parts == split(replace(q.range, <<"b", "y", "t", "e", "s", "=">>), "-")
      start == parseInt(parts[1])
      end == IF Len(parts) >= 2 /\ parts[2] # <<>> THEN parseInt(parts[2]) ELSE fileSize - 1
      chunkSize == end - start + 1
  IN IF stats.kind = "ENOENT" THEN Answer(q, 404, "", "", 0, <<>>)
     ELSE IF q.range = NoRange
     THEN IF stats.kind = "dir" THEN Uncaught(q)
          ELSE Answer(q, 200, "", "", fileSize, stats.bytes)
     ELSE IF rev = "part_000" /\ start >= fileSize THEN Answer(q, 416, "", "", 0, <<>>)
     ELSE IF ReadStreamThrows(start, end) \/ stats.kind = "dir" THEN Uncaught(q)
     ELSE Answer(q, 206,
                 "bytes " \o NumStr(start) \o "-" \o NumStr(end) \o "/" \o NumStr(fileSize),
                 "bytes", chunkSize, Window(stats.bytes, start, end))

Stream(q) ==
  /\ running
  /\ chunkCalls + Len(merges) + streamCalls < MaxRequests
  /\ streamCalls' = streamCalls + 1
  /\ lastStream' = <<serve(q)>>
  /\ running' = (serve(q).status # 0)
  /\ UNCHANGED <<rev, tmpChunkDir, folders, uploads, mediaCollection, chunkReq,
                 lastChunk, chunkLog, merges, appends, chunkCalls, faults, owners>>

\* an artifact of n bytes
Artifact(n) == [i \in 1..n |-> 10 + i]

\* The server has just started over the uploads/ directory of an earlier run:
\* uploads/others holds one merged artifact, no chunk is left in tmp_chunks.
InitStream ==
  /\ rev \in Revisions
  /\ tmpChunkDir = EmptyDir
  /\ folders = {"others"}
  /\ \E n \in 0..MaxSize : uploads = [k \in {1} |-> Artifact(n)]
  /\ mediaCollection = {}
  /\ chunkReq = <<>>
  /\ lastChunk = <<>>
  /\ chunkLog = EmptyDir
  /\ merges = <<>>
  /\ appends = {}
  /\ chunkCalls = 0
  /\ faults = 0
  /\ running = TRUE
  /\ lastStream = <<>>
  /\ streamCalls = 0
  /\ owners = EmptyDir

NextStream == \E q \in StreamRequests : Stream(q)

SpecStream == InitStream /\ [][NextStream]_vars

Next ==
  \/ \E b \in ChunkBodies : ChunkRejected(b)
  \/ \E b \in ChunkBodies : ChunkStart(b)
  \/ ChunkFinish
  \/ \E b \in CompleteBodies : CompleteStart(b)
  \/ \E k \in 1..Len(merges) : WriteCallback(k)
  \/ \E k \in 1..Len(merges) : WriteFails(k)
  \/ \E k \in 1..Len(merges) : EndCallback(k)
  \/ \E k \in 1..Len(merges) : InsertOne(k)
  \/ \E k \in 1..Len(merges) : InsertFails(k)

Spec == Init /\ [][Next]_vars

\* the upload routes over the requests that are stored and merged
NextMerge ==
  \/ \E b \in StoredChunkBodies : ChunkStart(b)
  \/ ChunkFinish
  \/ \E b \in ValidatedCompleteBodies : CompleteStart(b)
  \/ \E k \in 1..Len(merges) : WriteCallback(k)
  \/ \E k \in 1..Len(merges) : WriteFails(k)
  \/ \E k \in 1..Len(merges) : EndCallback(k)
  \/ \E k \in 1..Len(merges) : InsertOne(k)
  \/ \E k \in 1..Len(merges) : InsertFails(k)

SpecMerge == FirstStart /\ [][NextMerge]_vars

\* ------------------------------------------------------------ properties
Calls == 1..Len(merges)

TotalChunks(k) == Number(merges[k].body.totalChunks)

\* payload(0) ++ ... ++ payload(n-1) of the last submissions for token t
RECURSIVE Concatenation(_, _)
Concatenation(t, n) ==
  IF n <= 0 THEN <<>>
  ELSE Concatenation(t, n - 1)
         \o Submissions(UnitOf(t, n - 1))[Len(Submissions(UnitOf(t, n - 1)))]

\* the callback of writeStream.end has run for the call: the merge is complete
Merged(k) == merges[k].pc \in {"insert", "rejected"} \/ merges[k].status = 200

\* no other call that passed validation names the token of call k
OnlyCall(k) ==
  \A j \in Calls \ {k} :
    merges[j].stream => merges[j].body.uploadId # merges[k].body.uploadId

\* no chunk of call k has been submitted since the call arrived, and none
\* was being written when it arrived
Settled(k) ==
  /\ merges[k].stream
  /\ merges[k].idle
  /\ merges[k].subs = SubmissionCount(merges[k].body.uploadId, TotalChunks(k))

\* every chunk 0..totalChunks-1 of call k was received before the call arrived
ReceivedAll(k) ==
  /\ Settled(k)
  /\ \A f \in Units(merges[k].body) : Len(Submissions(f)) >= 1

\* ... and each of them exactly once
ReceivedOnce(k) ==
  /\ Settled(k)
  /\ \A f \in Units(merges[k].body) : Len(Submissions(f)) = 1

\* C1: when every chunk 0..N-1 of a token was received exactly once, in any
\* order, and complete(T, N) is then called with no other activity on T, the
\* call does not report a missing chunk and the merged file is
\* payload(0) ++ ... ++ payload(N-1).
C1_OrderedConcatenation ==
  \A k \in Calls :
    (ReceivedOnce(k) /\ OnlyCall(k)) =>
      /\ merges[k].status # 400
      /\ Merged(k) => uploads[k] = Concatenation(merges[k].body.uploadId, TotalChunks(k))

\* chunk 1 arrived before chunk 0 and the two were merged in index order
C1_Witness ==
  \E k \in Calls :
    /\ ReceivedOnce(k) /\ OnlyCall(k)
    /\ TotalChunks(k) = 2
    /\ merges[k].status = 200
    /\ lastChunk # <<>> /\ lastChunk[1].body.chunkIndex = "0" /\ lastChunk[1].status = 200
    /\ uploads[k] = p1 \o p2

Token(k) == merges[k].body.uploadId

DocsOf(k) == { d \in mediaCollection : d.file = k }

AppendsOf(k) == { a \in appends : a[3] = k }

\* C2: if some index in [0, N) was never received for the token,
\* complete(T, N) answers 400 naming a missing index, no file exists at the
\* output location afterwards and no catalog record has been inserted.
C2_MissingChunkLeavesNothing ==
  \A k \in Calls :
    ( /\ merges[k].stream
      /\ \E f \in Units(merges[k].body) : Submissions(f) = <<>>
      /\ OnlyCall(k)
      /\ faults = 0
      /\ Finished(merges[k]) ) =>
        /\ merges[k].status = 400
        /\ merges[k].missing \in 0..(TotalChunks(k) - 1)
        /\ ~existsSync(uploads, k)
        /\ DocsOf(k) = {}

\* C3: two complete calls on one token whose executions overlap behave as if
\* serialized: no chunk unit is appended to the output of both, and at most
\* one of them builds an artifact or inserts a catalog record.
C3_OverlappingCompletesSerialized ==
  \A k1 \in Calls : \A k2 \in Calls :
    ( /\ k1 \in merges[k2].inflight
      /\ merges[k1].stream /\ merges[k2].stream
      /\ Token(k1) = Token(k2)
      /\ ReceivedOnce(k1) /\ ReceivedOnce(k2) ) =>
        /\ \A a \in AppendsOf(k1) : \A b \in AppendsOf(k2) :
             ~(a[1] = b[1] /\ a[2] = b[2])
        /\ AppendsOf(k1) = {} \/ AppendsOf(k2) = {}
        /\ Cardinality(DocsOf(k1) \cup DocsOf(k2)) <= 1

\* C4: a failed merge leaves the session retryable: once every chunk of the
\* token has been received (each once), a complete call that arrives after
\* the earlier calls on the token have all failed with a missing chunk
\* succeeds with the full ordered concatenation.
C4_RetryAfterFailedMerge ==
  \A k \in Calls :
    ( /\ ReceivedOnce(k)
      /\ \A j \in Calls \ {k} :
           (merges[j].stream /\ Token(j) = Token(k)) =>
             /\ j < k /\ j \notin merges[k].inflight
             /\ TotalChunks(j) = TotalChunks(k) /\ merges[j].status = 400
      /\ faults = 0
      /\ Finished(merges[k]) ) =>
        /\ merges[k].status = 200
        /\ uploads[k] = Concatenation(Token(k), TotalChunks(k))

\* C5: completion is one-shot: after complete(T, N) has succeeded, a later
\* complete(T, N) with no chunk received again answers 400 for a missing
\* chunk and creates neither a second output file nor a second record.
C5_OneShotCompletion ==
  \A k1 \in Calls : \A k2 \in Calls :
    ( /\ k1 < k2
      /\ merges[k1].stream /\ merges[k2].stream
      /\ Token(k1) = Token(k2) /\ TotalChunks(k1) = TotalChunks(k2)
      /\ merges[k1].status = 200
      /\ k1 \notin merges[k2].inflight
      /\ ReceivedOnce(k1) /\ Settled(k2)
      /\ Finished(merges[k2]) ) =>
        /\ merges[k2].status = 400
        /\ ~existsSync(uploads, k2)
        /\ DocsOf(k2) = {}

\* the part of C5 about the answer and the catalog
C5_SecondCallFails ==
  \A k1 \in Calls : \A k2 \in Calls :
    ( /\ k1 < k2
      /\ merges[k1].stream /\ merges[k2].stream
      /\ Token(k1) = Token(k2) /\ TotalChunks(k1) = TotalChunks(k2)
      /\ merges[k1].status = 200
      /\ k1 \notin merges[k2].inflight
      /\ ReceivedOnce(k1) /\ Settled(k2)
      /\ Finished(merges[k2]) ) =>
        /\ merges[k2].status = 400
        /\ DocsOf(k2) = {}

\* C6: a second submission for the same (token, index) before complete
\* replaces the first: the one chunk file holds the last payload submitted,
\* and the file merged by the following complete has the last payload, and
\* nothing of the earlier one, at that index.
C6_ResubmissionReplaces ==
  /\ \A f \in DOMAIN tmpChunkDir :
       (chunkReq = <<>> \/ filename(chunkReq[1]) # f) =>
         tmpChunkDir[f] = Submissions(f)[Len(Submissions(f))]
  /\ \A k \in Calls :
       ( /\ ReceivedAll(k) /\ OnlyCall(k)
         /\ \E f \in Units(merges[k].body) : Len(Submissions(f)) >= 2
         /\ Merged(k) ) =>
           uploads[k] = Concatenation(Token(k), TotalChunks(k))

\* chunk 0 of "a" was submitted as p1 and then as p2; the merged file is p2
C6_Witness ==
  \E k \in Calls :
    /\ ReceivedAll(k) /\ OnlyCall(k)
    /\ Submissions(UnitOf(Token(k), 0)) = <<p1, p2>>
    /\ merges[k].status = 200
    /\ uploads[k] = p2

\* C7: overlapping complete calls on two distinct tokens, each with all its
\* chunks received, never fail, and each merged file is the concatenation of
\* the chunks of its own token in index order.
C7_IndependentSessions ==
  \A k1 \in Calls : \A k2 \in Calls :
    ( /\ k1 \in merges[k2].inflight
      /\ Token(k1) # Token(k2)
      /\ ReceivedAll(k1) /\ OnlyCall(k1)
      /\ ReceivedAll(k2) /\ OnlyCall(k2)
      /\ faults = 0 ) =>
        \A k \in {k1, k2} :
          /\ merges[k].status \in {0, 200}
          /\ Merged(k) => uploads[k] = Concatenation(Token(k), TotalChunks(k))

\* the calls on "a" and "b" overlapped and both answered success, each with
\* the bytes of its own chunks
C7_Witness ==
  \E k1 \in Calls : \E k2 \in Calls :
    /\ k1 \in merges[k2].inflight
    /\ Token(k1) # Token(k2)
    /\ ReceivedAll(k1) /\ ReceivedAll(k2)
    /\ merges[k1].status = 200 /\ merges[k2].status = 200
    /\ uploads[k1] # <<>> /\ uploads[k2] # <<>>
    /\ uploads[k1] # uploads[k2]

\* C8: when the catalog insert fails after the merge, the caller gets an
\* error answer, the merged file stays on disk and no record exists for it.
C8_CatalogFailureAnswered ==
  \A k \in Calls :
    merges[k].pc = "rejected" =>
      /\ merges[k].status >= 400
      /\ existsSync(uploads, k)
      /\ DocsOf(k) = {}

\* chunkIndex is the decimal form of a non-negative integer
IsIndex(c) == c \in {"0", "1", "2", "3", "4"}

InvalidChunk(b) == Falsy(b.uploadId) \/ ~IsIndex(b.chunkIndex) \/ ~b.hasFile

\* C9: a chunk request whose token is absent or empty, whose index is absent
\* or not a non-negative integer, or that carries no payload is answered
\* with a 400-class status and stores no chunk file.
C9_InvalidChunkRejected ==
  /\ chunkReq # <<>> => ~InvalidChunk(chunkReq[1])
  /\ lastChunk # <<>> =>
       (InvalidChunk(lastChunk[1].body) =>
          /\ lastChunk[1].status \in 400..499
          /\ ~lastChunk[1].stored)

\* one of the three required fields is absent from the body
AbsentParameter(b) == b.uploadId = UNDEF \/ b.fileName = UNDEF \/ b.totalChunks = UNDEF

\* C10: complete without uploadId, fileName or totalChunks answers 400 before
\* any I/O: the step that takes the call creates no folder and no file,
\* touches no chunk file and inserts no record, and the call does nothing
\* later.
C10_MissingParametersBeforeIO ==
  /\ [][ (Len(merges') = Len(merges) + 1
            /\ AbsentParameter(merges'[Len(merges')].body)) =>
           /\ merges'[Len(merges')].status = 400
           /\ UNCHANGED <<tmpChunkDir, folders, uploads, mediaCollection>> ]_vars
  /\ [](\A k \in Calls :
          AbsentParameter(merges[k].body) =>
            /\ merges[k].status = 400 /\ merges[k].pc = "done"
            /\ ~existsSync(uploads, k)
            /\ DocsOf(k) = {} /\ AppendsOf(k) = {})

\* a call without parameters was answered 400 while a chunk file was waiting
\* and nothing had been created under uploads
C10_Witness ==
  \E k \in Calls :
    /\ AbsentParameter(merges[k].body)
    /\ merges[k].body.uploadId = "a" /\ merges[k].body.totalChunks = UNDEF
    /\ merges[k].status = 400
    /\ existsSync(tmpChunkDir, "a-0") /\ tmpChunkDir["a-0"] = p1
    /\ folders = {} /\ uploads = EmptyDir /\ mediaCollection = {}

\* ------------------------------------------------- properties of /stream
\* the latest stream request asked for the artifact of call 1
StreamedArtifact ==
  /\ lastStream # <<>>
  /\ 1 \in DOMAIN uploads
  /\ lastStream[1].req.folder = folderOf(1)
  /\ lastStream[1].req.filename = finalFileName(1)

\* the header 'bytes=<s>-<e>' for one-digit s and e, and 'bytes=<s>-'
FromTo(s, e) == <<"b", "y", "t", "e", "s", "=", NumStr(s), "-", NumStr(e)>>

From(s) == <<"b", "y", "t", "e", "s", "=", NumStr(s), "-">>

\* the header asks for the window s..e of a file of S bytes
AsksFor(range, s, e, S) == range = FromTo(s, e) \/ (e = S - 1 /\ range = From(s))

\* C11: a Range 'bytes=<s>-<e>' with 0 <= s <= e < S on an existing artifact
\* of S bytes (e = S-1 when omitted) is answered 206 with Content-Range
\* 'bytes s-e/S', Accept-Ranges 'bytes', Content-Length e-s+1 and exactly
\* the bytes s..e of the artifact.
C11_PartialContent ==
  StreamedArtifact =>
    \A s \in 0..(Len(uploads[1]) - 1), e \in 0..(Len(uploads[1]) - 1) :
      (s <= e /\ AsksFor(lastStream[1].req.range, s, e, Len(uploads[1]))) =>
        /\ lastStream[1].status = 206
        /\ lastStream[1].contentRange =
             "bytes " \o NumStr(s) \o "-" \o NumStr(e) \o "/" \o NumStr(Len(uploads[1]))
        /\ lastStream[1].acceptRanges = "bytes"
        /\ lastStream[1].contentLength = e - s + 1
        /\ lastStream[1].body = [i \in 1..(e - s + 1) |-> uploads[1][s + i]]

\* 'bytes=0-1' on an artifact of three bytes was answered with its first two
C11_Witness ==
  /\ StreamedArtifact
  /\ Len(uploads[1]) = 3
  /\ lastStream[1].req.range = FromTo(0, 1)
  /\ lastStream[1].status = 206
  /\ lastStream[1].body = <<uploads[1][1], uploads[1][2]>>

\* C12: a Range whose numeric start is >= the size S of an existing artifact
\* is answered 416 and none of the artifact's bytes; it is never answered 206.
C12_UnsatisfiableRange ==
  StreamedArtifact =>
    \A s \in 0..9 :
      ( /\ s >= Len(uploads[1])
        /\ Len(lastStream[1].req.range) >= 8
        /\ SubSeq(lastStream[1].req.range, 1, 8) = From(s) ) =>
        /\ lastStream[1].status = 416
        /\ lastStream[1].body = <<>>

\* C13: a Range whose start is not a number ('bytes=a-1', 'bytes=-1') is
\* answered as 'bytes=0-1' is: 206 with the window 0..1.
C13_NonNumericStartIsZero ==
  ( /\ StreamedArtifact
    /\ Len(uploads[1]) >= 2
    /\ lastStream[1].req.range \in
         { <<"b", "y", "t", "e", "s", "=", "a", "-", "1">>,
           <<"b", "y", "t", "e", "s", "=", "-", "1">> } ) =>
    /\ lastStream[1].status = 206
    /\ lastStream[1].contentLength = 2
    /\ lastStream[1].body = <<uploads[1][1], uploads[1][2]>>

\* C14: no request ends the process, and every stream request is answered
\* 200, 206, 416 or 404.
C14_NoRequestIsFatal ==
  /\ running
  /\ lastStream # <<>> => lastStream[1].status \in {200, 206, 416, 404}

\* the path of the latest stream request names nothing that is an artifact
NotAnArtifact ==
  /\ lastStream # <<>>
  /\ \A k \in DOMAIN uploads :
       lastStream[1].req.folder # folderOf(k) \/ lastStream[1].req.filename # finalFileName(k)

\* C15: without a Range header an existing artifact of S bytes is answered
\* 200 with Content-Length S and the whole artifact; a path that does not
\* resolve to an existing file is answered 404 without any byte.
C15_FullContentOrNotFound ==
  /\ (StreamedArtifact /\ lastStream[1].req.range = <<>>) =>
       /\ lastStream[1].status = 200
       /\ lastStream[1].contentLength = Len(uploads[1])
       /\ lastStream[1].body = uploads[1]
  /\ NotAnArtifact =>
       /\ lastStream[1].status = 404
       /\ lastStream[1].body = <<>>

\* the part of C15 that holds: the whole artifact without a Range header,
\* and 404 when nothing exists at the path
C15_FullContentOrNothingThere ==
  /\ (StreamedArtifact /\ lastStream[1].req.range = <<>>) =>
       /\ lastStream[1].status = 200
       /\ lastStream[1].contentLength = Len(uploads[1])
       /\ lastStream[1].body = uploads[1]
  /\ (NotAnArtifact /\ lastStream[1].req.filename # "..") =>
       /\ lastStream[1].status = 404
       /\ lastStream[1].body = <<>>

\* ------------------------------------------------ properties of the merge
\* call k has appended chunk i of its token to its output
Appended(k, i) == \E a \in AppendsOf(k) : a[1] = UnitOf(Token(k), i)

\* C16: in complete(T, N) all N chunks are appended, then the output is
\* closed, then the record is inserted, then success is answered: a record
\* or a success answer exists only for a call that has appended its N chunks
\* and closed its output, and success is answered only after the insert.
C16_MergeOrder ==
  \A k \in Calls :
    /\ (DocsOf(k) # {} \/ merges[k].status = 200 \/ merges[k].pc = "insert") =>
         /\ \A i \in 0..(TotalChunks(k) - 1) : Appended(k, i)
         /\ ~merges[k].open
    /\ merges[k].status = 200 => DocsOf(k) # {}

\* a call with totalChunks 2 answered success after its two appends
C16_Witness ==
  \E k \in Calls :
    /\ TotalChunks(k) = 2
    /\ merges[k].status = 200
    /\ DocsOf(k) # {}
    /\ Appended(k, 0) /\ Appended(k, 1)
    /\ uploads[k] = p1 \o p2

\* C17: within one merge a chunk file is deleted only in the step in which
\* its bytes have been appended in full to the output, by a call that had not
\* processed that chunk before; and chunk i is read only after the chunks
\* below i have been appended.
C17_AppendThenDelete ==
  /\ [][ \A f \in DOMAIN tmpChunkDir :
           f \notin DOMAIN tmpChunkDir' =>
             \E k \in Calls :
               /\ merges[k].pc = "write"
               /\ f = UnitOf(Token(k), merges[k].i)
               /\ uploads'[k] = uploads[k] \o merges[k].chunkBuffer
               /\ <<f, merges[k].unit, k>> \in appends' \ appends ]_vars
  /\ [](\A k \in Calls :
          merges[k].pc = "write" => \A j \in 0..(merges[k].i - 1) : Appended(k, j))

\* both chunks of a call with totalChunks 2 were appended and are gone
C17_Witness ==
  \E k \in Calls :
    /\ TotalChunks(k) = 2
    /\ Appended(k, 0) /\ Appended(k, 1)
    /\ ~existsSync(tmpChunkDir, UnitOf(Token(k), 0))
    /\ ~existsSync(tmpChunkDir, UnitOf(Token(k), 1))
    /\ uploads[k] = p1 \o p2

\* totalChunks is the decimal form of a positive integer
IsPositive(t) == t \in {"1", "2", "3", "4", "5", "6", "7", "8", "9"}

\* C18: complete builds an artifact and inserts a record only when
\* totalChunks denotes a positive integer: a totalChunks of '0' never leads
\* to a success answer or a record.
C18_PositiveTotalChunks ==
  \A k \in Calls :
    (merges[k].status = 200 \/ DocsOf(k) # {}) => IsPositive(merges[k].body.totalChunks)

\* C19: once complete has answered, whatever the answer, its write stream
\* no longer holds the output file open.
C19_OutputClosedOnEveryExit ==
  \A k \in Calls : merges[k].status # 0 => ~merges[k].open

\* C20: two distinct (token, index) pairs are never stored in one chunk
\* file, and a complete call appends only chunk files that hold chunks of
\* its own token.
C20_NoAliasing ==
  /\ \A f \in DOMAIN owners : Cardinality(owners[f]) <= 1
  /\ \A a \in appends : \A o \in Owners(a[1]) : o[1] = Token(a[3])

\* C21: complete never folds a partially written chunk into an artifact: the
\* buffer a call has read for chunk i, and appends, is the whole payload of
\* the submission it read, never a truncated prefix of it.
C21_NoPartialChunk ==
  \A k \in Calls :
    merges[k].pc = "write" =>
      merges[k].chunkBuffer =
        Submissions(UnitOf(Token(k), merges[k].i))[merges[k].unit]

\* C22: every 206 answer describes a window inside the file, 0 <= start <=
\* end <= fileSize - 1, and its Content-Length is the number of bytes sent.
C22_WindowInsideFile ==
  (StreamedArtifact /\ lastStream[1].status = 206) =>
    /\ lastStream[1].contentLength = Len(lastStream[1].body)
    /\ \E s \in 0..(Len(uploads[1]) - 1), e \in 0..(Len(uploads[1]) - 1) :
         /\ s <= e
         /\ lastStream[1].contentRange =
              "bytes " \o NumStr(s) \o "-" \o NumStr(e) \o "/" \o NumStr(Len(uploads[1]))
         /\ lastStream[1].contentLength = e - s + 1

\* C23: a complete(T, N) removes exactly the chunk files (T, 0) .. (T, N-1):
\* a step of a call that gets past the append of chunk i removes that chunk
\* file, and a step that is not a chunk request leaves every chunk file as
\* it was unless it is the file of some call's current chunk i < N.
C23_RemovesExactlyItsChunks ==
  /\ [][ \A k \in Calls :
           ( /\ merges[k].pc = "write"
             /\ merges'[k] # merges[k]
             /\ merges'[k].status # 500 ) =>
               ~existsSync(tmpChunkDir', UnitOf(Token(k), merges[k].i)) ]_vars
  /\ [][ chunkReq' = chunkReq =>
           \A f \in DOMAIN tmpChunkDir :
             \/ existsSync(tmpChunkDir', f) /\ tmpChunkDir'[f] = tmpChunkDir[f]
             \/ \E k \in Calls :
                  /\ merges[k].pc = "write"
                  /\ merges[k].i < TotalChunks(k)
                  /\ f = UnitOf(Token(k), merges[k].i) ]_vars
  /\ [](\A k \in Calls :
          merges[k].status = 200 =>
            \A i \in 0..(TotalChunks(k) - 1) : Appended(k, i))

\* complete("a", 1) succeeded and removed a-0; chunk 1 of "a" and chunk 0 of
\* "b" are still stored with their payloads
C23_Witness ==
  \E k \in Calls :
    /\ Token(k) = "a" /\ TotalChunks(k) = 1
    /\ merges[k].status = 200
    /\ ~existsSync(tmpChunkDir, "a-0")
    /\ existsSync(tmpChunkDir, "a-1") /\ tmpChunkDir["a-1"] = p2
    /\ existsSync(tmpChunkDir, "b-0") /\ tmpChunkDir["b-0"] = p3
    /\ chunkReq = <<>>

====
